---- MODULE Spec2Model ----
(***************************************************************************)
(* Layered resource resolution and safe deletion of lcagents:              *)
(* LayerManager (src/unnamed/part_003), SafeDeleteManager                  *)
(* (src/unnamed/part_002) and the delete / restore commands.               *)
(*                                                                         *)
(* A string is a sequence of tokens, so that concatenation, path.join,     *)
(* String.includes and the '.md' suffix handling are computed and not      *)
(* assumed.  The file system is a function from the segments of            *)
(* normalised absolute POSIX paths to nodes.                               *)
(***************************************************************************)
EXTENDS Integers, Sequences, FiniteSets, TLC

\* ------------------------------------------------------------------ bounds
\* the clock takes the values 1..MaxTime (one value per millisecond stamp)
MaxTime == 2
\* file contents are 1..MaxContent
MaxContent == 2

\* ----------------------------------------------------------------- strings
Null == [kind |-> "null"]

Sep == "/"

\* String.prototype.includes
Includes(s, sub) ==
  \E i \in 0..(Len(s) - Len(sub)) : SubSeq(s, i + 1, i + Len(sub)) = sub

\* the segments of a path string, split at every separator
RECURSIVE SplitFrom(_, _, _)
SplitFrom(s, i, cur) ==
  IF i > Len(s) THEN << cur >>
  ELSE IF s[i] = Sep THEN << cur >> \o SplitFrom(s, i + 1, << >>)
  ELSE SplitFrom(s, i + 1, Append(cur, s[i]))

IsAbsolute(s) == Len(s) > 0 /\ s[1] = Sep

\* POSIX normalisation of the segments: '' and '.' are dropped, '..' removes
\* the segment before it (and is kept at the front of a relative path)
RECURSIVE NormSegs(_, _, _, _)
NormSegs(segs, i, acc, abs) ==
  IF i > Len(segs) THEN acc
  ELSE IF segs[i] = << >> \/ segs[i] = << "." >> THEN NormSegs(segs, i + 1, acc, abs)
  ELSE IF segs[i] # << ".." >> THEN NormSegs(segs, i + 1, Append(acc, segs[i]), abs)
  ELSE IF Len(acc) > 0 /\ acc[Len(acc)] # << ".." >>
    THEN NormSegs(segs, i + 1, SubSeq(acc, 1, Len(acc) - 1), abs)
  ELSE IF abs THEN NormSegs(segs, i + 1, acc, abs)
  ELSE NormSegs(segs, i + 1, Append(acc, segs[i]), abs)

\* the normalised segments of a path string
Segments(s) == NormSegs(SplitFrom(s, 1, << >>), 1, << >>, IsAbsolute(s))

RECURSIVE Unsplit(_, _)
Unsplit(segs, i) ==
  IF i > Len(segs) THEN << >>
  ELSE IF i = Len(segs) THEN segs[i]
  ELSE segs[i] \o << Sep >> \o Unsplit(segs, i + 1)

\* the path string of normalised segments
FromSegments(segs, abs) ==
  IF abs THEN << Sep >> \o Unsplit(segs, 1)
  ELSE IF segs = << >> THEN << "." >>
  ELSE Unsplit(segs, 1)

\* path.normalize
Normalize(s) == FromSegments(Segments(s), IsAbsolute(s))

\* the parts of path.join glued by the separator; empty parts are skipped
RECURSIVE Glue(_, _)
Glue(parts, i) ==
  IF i > Len(parts) THEN << >>
  ELSE IF parts[i] = << >> THEN Glue(parts, i + 1)
  ELSE << Sep >> \o parts[i] \o Glue(parts, i + 1)

\* path.join(parts...)
PathJoin(parts) ==
  IF Glue(parts, 1) = << >> THEN << "." >> ELSE Normalize(Tail(Glue(parts, 1)))

\* path.basename: the last segment
Basename(p) == IF Segments(p) = << >> THEN << >> ELSE Segments(p)[Len(Segments(p))]

\* path.dirname: all the segments but the last
Dirname(p) ==
  FromSegments(IF Segments(p) = << >> THEN << >>
               ELSE SubSeq(Segments(p), 1, Len(Segments(p)) - 1),
               IsAbsolute(p))

\* ------------------------------------------------------------- file system
\* fs-extra on a tree: a function from keys to nodes, the key of a path being
\* the segments of its normalised absolute form
DirNode == [kind |-> "dir"]

FileNode(c) == [kind |-> "file", content |-> c]

\* process.cwd(), which the commands pass as basePath
Cwd == << Sep, "proj" >>

\* path.resolve of a path handed to a file-system call
Abs(p) == IF IsAbsolute(p) THEN Normalize(p) ELSE Normalize(Cwd \o << Sep >> \o p)

Key(p) == IF IsAbsolute(p) THEN Segments(p) ELSE Segments(Cwd \o << Sep >> \o p)

\* the absolute path string of a key
PathOf(k) == << Sep >> \o Unsplit(k, 1)

\* q is k or lies below k
IsAtOrUnder(q, k) == Len(q) >= Len(k) /\ SubSeq(q, 1, Len(k)) = k

PathExists(f, p) == Key(p) \in DOMAIN f

IsDirKey(f, k) == k \in DOMAIN f /\ f[k].kind = "dir"

IsDir(f, p) == IsDirKey(f, Key(p))

\* the order in which a directory lists its entries: fixed, implementation-defined
RECURSIVE ListingOrder(_)
ListingOrder(S) ==
  IF S = {} THEN << >>
  ELSE << CHOOSE y \in S : TRUE >> \o ListingOrder(S \ { CHOOSE y \in S : TRUE })

ReaddirKey(f, k) ==
  ListingOrder({ q[Len(q)] :
                   q \in { r \in DOMAIN f : Len(r) = Len(k) + 1 /\ IsAtOrUnder(r, k) } })

\* fs.readdir: the base names of the entries of directory d
Readdir(f, d) == ReaddirKey(f, Key(d))

EnsureDirKey(f, k) ==
  [q \in DOMAIN f \cup { SubSeq(k, 1, i) : i \in 0..Len(k) } |->
     IF q \in DOMAIN f THEN f[q] ELSE DirNode]

\* fs.ensureDir: d and every missing ancestor become directories
EnsureDir(f, d) == EnsureDirKey(f, Key(d))

RemoveKey(f, k) == [q \in { r \in DOMAIN f : ~IsAtOrUnder(r, k) } |-> f[q]]

\* fs.remove: p and everything below it
Remove(f, p) == RemoveKey(f, Key(p))

WriteKey(f, k, c) == [q \in DOMAIN f \cup { k } |-> IF q = k THEN FileNode(c) ELSE f[q]]

\* fs.writeFile / fs.writeJSON
WriteFile(f, p, c) == WriteKey(f, Key(p), c)

\* the tree at key s written at key d of tree g
CopyKeys(f, g, s, d) ==
  [t \in DOMAIN g \cup { d \o SubSeq(q, Len(s) + 1, Len(q)) :
                           q \in { r \in DOMAIN f : IsAtOrUnder(r, s) } } |->
     IF Len(t) >= Len(d) /\ SubSeq(t, 1, Len(d)) = d
          /\ s \o SubSeq(t, Len(d) + 1, Len(t)) \in DOMAIN f
       THEN f[s \o SubSeq(t, Len(d) + 1, Len(t))]
       ELSE g[t]]

\* fs.copy(src, dst): the node at src and everything below it, written at dst
\* over whatever is there; the parent of dst is created when missing
Copy(f, src, dst) == CopyKeys(f, EnsureDir(f, Dirname(Abs(dst))), Key(src), Key(dst))

\* a move that writes into the tree at dst and keeps what it does not overwrite
MoveMerging(f, src, dst) == Remove(Copy(f, src, dst), src)

\* fs.move(src, dst, {overwrite: true}): dst is replaced by the tree at src
Move(f, src, dst) == Remove(Copy(Remove(f, dst), src, dst), src)

\* --------------------------------------------------------------- results
Ok(v) == [ok |-> TRUE, value |-> v]

Err(e) == [ok |-> FALSE, error |-> e]

\* the outcome of an operation that writes: the tree it leaves and its result
Wrote(f, r) == [fs |-> f, res |-> r]

\* ----------------------------------------------------------- LayerManager
\* no active core system: getActiveCoreSystem() answers a falsy value
NoCore == << >>

\* this.lcagentsPath = path.join(basePath, '.lcagents')
LcagentsPath == Cwd \o << Sep, ".lcagents" >>

\* `.${activeCore}`
DotCore(ac) == << "." >> \o ac

AgentFile(agentId) == agentId \o << ".md" >>

OverrideFile(agentId) == agentId \o << ".yaml" >>

\* layer sources that name the custom layer before the org layer
CustomBeforeOrg(f, orgOverridePath, customOverridePath) ==
  << "core" >>
  \o (IF PathExists(f, customOverridePath) THEN << "custom" >> ELSE << >>)
  \o (IF PathExists(f, orgOverridePath) THEN << "org" >> ELSE << >>)

\* layerSources of resolveAgent
LayerSources(f, orgOverridePath, customOverridePath) ==
  << "core" >>
  \o (IF PathExists(f, orgOverridePath) THEN << "org" >> ELSE << >>)
  \o (IF PathExists(f, customOverridePath) THEN << "custom" >> ELSE << >>)

\* the AgentResolutionPath resolveAgent returns
AgentResolution(agentId, coreSystem, corePath, layerSources) ==
  [agentId |-> agentId, coreSystem |-> coreSystem, corePath |-> corePath,
   finalPath |-> corePath, layerSources |-> layerSources]

\* LayerManager.resolveAgent
ResolveAgent(f, ac, agentId, coreSystem) ==
  IF ac = NoCore
    THEN AgentResolution(agentId, << >>, << >>, << >>)
    ELSE AgentResolution(
           agentId,
           IF coreSystem # << >> THEN coreSystem ELSE ac,
           PathJoin(<< LcagentsPath, << "core" >>, DotCore(ac), << "agents" >>,
                       AgentFile(agentId) >>),
           LayerSources(f,
             PathJoin(<< LcagentsPath, << "org" >>, << "agents" >>, << "overrides" >>,
                         OverrideFile(agentId) >>),
             PathJoin(<< LcagentsPath, << "custom" >>, << "agents" >>, << "overrides" >>,
                         OverrideFile(agentId) >>)))

\* file.endsWith('.md')
IsMd(file) == Len(file) >= 1 /\ SubSeq(file, Len(file), Len(file)) = << ".md" >>

\* file.replace('.md', '') on every file: the first occurrence only is dropped
StripMd(files) ==
  [i \in 1..Len(files) |->
     IF ~Includes(files[i], << ".md" >>) THEN files[i]
     ELSE LET k == CHOOSE j \in 1..Len(files[i]) :
                     /\ files[i][j] = ".md"
                     /\ \A h \in 1..(j - 1) : files[i][h] # ".md"
          IN SubSeq(files[i], 1, k - 1) \o SubSeq(files[i], k + 1, Len(files[i]))]

ListAgentsAt(f, agentsPath) ==
  IF ~PathExists(f, agentsPath) THEN << >>
  ELSE StripMd(SelectSeq(Readdir(f, agentsPath), IsMd))

\* a listing of the agents directory of bmad, whatever core system is active
ListAgentsOfBmad(f, ac) ==
  ListAgentsAt(f, PathJoin(<< LcagentsPath, << "core" >>, << ".", "bmad" >>, << "agents" >> >>))

\* LayerManager.listAgents
ListAgents(f, ac) ==
  IF ac = NoCore THEN << >>
  ELSE ListAgentsAt(f, PathJoin(<< LcagentsPath, << "core" >>, DotCore(ac), << "agents" >> >>))

LoadAgentAt(f, agentName, agentPath) ==
  IF ~PathExists(f, agentPath.corePath) THEN Err("AgentNotFound")
  ELSE IF IsDir(f, agentPath.corePath) THEN Err("ReadFailed")
  ELSE Ok([name |-> agentName,
           content |-> f[Key(agentPath.corePath)].content,
           path |-> agentPath])

\* LayerManager.loadAgent: the record {name, content, path}
LoadAgent(f, ac, agentName) == LoadAgentAt(f, agentName, ResolveAgent(f, ac, agentName, << >>))

\* LayerManager.saveAgent: the tree after the write, or the error
SaveAgent(f, agent) ==
  IF "path" \notin DOMAIN agent \/ agent.path.corePath = << >>
    THEN Wrote(f, Err("InvalidArgument"))
    ELSE Wrote(WriteFile(EnsureDir(f, Dirname(agent.path.corePath)),
                         agent.path.corePath, agent.content),
               Ok("saved"))

\* the directory of a resource type in a layer
LayerDir(ac, layer, resourceType) ==
  IF layer = "core"
    THEN PathJoin(<< LcagentsPath, << "core" >>, DotCore(ac), resourceType >>)
    ELSE PathJoin(<< LcagentsPath, << layer >>, resourceType >>)

EntriesOf(dir, files, layer) ==
  [i \in 1..Len(files) |->
     [name |-> files[i], path |-> PathJoin(<< dir, files[i] >>), source |-> layer]]

\* one layer's part of listResources; a missing directory lists nothing
LayerEntries(f, ac, layer, resourceType) ==
  EntriesOf(LayerDir(ac, layer, resourceType),
            Readdir(f, LayerDir(ac, layer, resourceType)), layer)

\* a listing that starts with the custom layer
ListCustomFirst(f, ac, resourceType) ==
  IF ac = NoCore THEN << >>
  ELSE LayerEntries(f, ac, "custom", resourceType)
       \o LayerEntries(f, ac, "org", resourceType)
       \o LayerEntries(f, ac, "core", resourceType)

\* LayerManager.listResources
ListResources(f, ac, resourceType) ==
  IF ac = NoCore THEN << >>
  ELSE LayerEntries(f, ac, "core", resourceType)
       \o LayerEntries(f, ac, "org", resourceType)
       \o LayerEntries(f, ac, "custom", resourceType)

\* LayerManager.getResourcePath: the path, or Null
GetResourcePath(f, ac, resourceType, resourceName) ==
  IF ac = NoCore THEN Null
  ELSE IF PathExists(f, PathJoin(<< LcagentsPath, << "core" >>, DotCore(ac),
                                    resourceType, resourceName >>))
    THEN PathJoin(<< LcagentsPath, << "core" >>, DotCore(ac), resourceType, resourceName >>)
    ELSE Null

\* the layers visited in the order of enumeration
CoreFirst == << "core", "org", "custom" >>

\* the order in which resolveTemplate visits the layers
TemplateLayers == << "custom", "org", "core" >>

TemplatePath(ac, layer, templateName) ==
  IF layer = "core"
    THEN PathJoin(<< LcagentsPath, << layer >>, DotCore(ac), << "templates" >>, templateName >>)
    ELSE PathJoin(<< LcagentsPath, << layer >>, << "templates" >>, templateName >>)

RECURSIVE TemplateFrom(_, _, _, _)
TemplateAt(f, ac, templateName, i, templatePath) ==
  IF PathExists(f, templatePath)
    THEN Ok([name |-> templateName, path |-> templatePath, source |-> TemplateLayers[i]])
    ELSE TemplateFrom(f, ac, templateName, i + 1)

\* the loop of resolveTemplate, from the i-th layer on
TemplateFrom(f, ac, templateName, i) ==
  IF i > Len(TemplateLayers) THEN Err("TemplateNotFound")
  ELSE TemplateAt(f, ac, templateName, i, TemplatePath(ac, TemplateLayers[i], templateName))

\* LayerManager.resolveTemplate
ResolveTemplate(f, ac, templateName) ==
  IF ac = NoCore THEN Err("NoActiveCore") ELSE TemplateFrom(f, ac, templateName, 1)

ReadAt(f, resourcePath) ==
  IF resourcePath = Null THEN Err("ResourceNotFound")
  ELSE IF IsDir(f, resourcePath) THEN Err("ReadFailed")
  ELSE Ok(f[Key(resourcePath)].content)

\* LayerManager.readResource
ReadResource(f, ac, resourceType, resourceName) ==
  ReadAt(f, GetResourcePath(f, ac, resourceType, resourceName))

\* the resource types of an installation
ResourceTypes ==
  << << "agents" >>, << "tasks" >>, << "templates" >>, << "workflows" >>, << "utils" >>,
     << "data" >> >>

\* the loop of migrateFromFlatStructure, from the i-th resource type on
RECURSIVE MigrateFrom(_, _, _)
MigrateFrom(f, newCorePath, i) ==
  IF i > Len(ResourceTypes) THEN f
  ELSE IF PathExists(f, PathJoin(<< LcagentsPath, ResourceTypes[i] >>))
    THEN MigrateFrom(Move(f, PathJoin(<< LcagentsPath, ResourceTypes[i] >>),
                          PathJoin(<< newCorePath, ResourceTypes[i] >>)),
                     newCorePath, i + 1)
  ELSE MigrateFrom(EnsureDir(f, PathJoin(<< newCorePath, ResourceTypes[i] >>)),
                   newCorePath, i + 1)

\* LayerManager.migrateFromFlatStructure: the tree it leaves
MigrateFromFlatStructure(f, coreSystemName) ==
  MigrateFrom(EnsureDir(f, PathJoin(<< LcagentsPath, << "core" >>, DotCore(coreSystemName) >>)),
              PathJoin(<< LcagentsPath, << "core" >>, DotCore(coreSystemName) >>), 1)

\* ------------------------------------------------------- ResourceResolver
\* ResourceResolver.getResourceMetadata(type, name): the metadata document of
\* a resource, or Null; rm is what the resolver knows, by resource name
GetResourceMetadata(rm, resourceType, name) ==
  IF name \in DOMAIN rm THEN rm[name] ELSE Null

\* ------------------------------------------------------ SafeDeleteManager
\* this.backupDir, a path relative to the working directory
BackupDir == << ".lcagents", Sep, "backups" >>

\* new Date().toISOString().replace(/[:.]/g, '-') at clock value t
Stamp(t) == << "T", ToString(t) >>

\* a protection that recognises no path
NeverCore(resourcePath) == FALSE

\* SafeDeleteManager.isCoreResource
\* a core test that looks for the core directory at the start of the path
CoreAtStart(resourcePath) ==
  /\ Len(resourcePath) >= 4
  /\ SubSeq(resourcePath, 1, 4) = << ".lcagents", Sep, "core", Sep >>

IsCoreResource(resourcePath) ==
  Includes(resourcePath, << ".lcagents", Sep, "core", Sep >>)

\* what one agent adds to the dependencies; a failing load is skipped.
\* agent.dependencies || {} has no array when the record has no such field;
\* allDeps.some(deps => Array.isArray(deps) && deps.includes(resourceName))
AgentDependency(agentName, loaded, resourceName) ==
  IF /\ loaded.ok
     /\ "dependencies" \in DOMAIN loaded.value
     /\ \E k \in DOMAIN loaded.value.dependencies :
          \E i \in DOMAIN loaded.value.dependencies[k] :
            loaded.value.dependencies[k][i] = resourceName
    THEN << [type |-> "agent", name |-> agentName, path |-> loaded.value.path.corePath] >>
    ELSE << >>

\* the loop over the agents in checkDependencies
RECURSIVE AgentDependencies(_, _, _, _, _)
AgentDependencies(f, ac, agents, i, resourceName) ==
  IF i > Len(agents) THEN << >>
  ELSE AgentDependency(agents[i], LoadAgent(f, ac, agents[i]), resourceName)
       \o AgentDependencies(f, ac, agents, i + 1, resourceName)

\* a loop body that does not skip the resource checked
DependencyOfAny(resource, metadata, resourceName) ==
  IF metadata # Null /\ resourceName \in metadata.dependencies
    THEN << [type |-> "resource", name |-> resource.name, path |-> resource.path] >>
    ELSE << >>

\* what one resource of the type adds to the dependencies
ResourceDependency(resource, metadata, resourceName) ==
  IF /\ resource.name # resourceName
     /\ metadata # Null
     /\ resourceName \in metadata.dependencies
    THEN << [type |-> "resource", name |-> resource.name, path |-> resource.path] >>
    ELSE << >>

Backwards(seq) == [i \in 1..Len(seq) |-> seq[Len(seq) + 1 - i]]

\* a loop over the resources that records the last listed dependent first
ResourcesBackwards(rm, resources, i, resourceType, resourceName) ==
  Backwards(
    [k \in DOMAIN SelectSeq(SubSeq(resources, i, Len(resources)),
                            LAMBDA e : ResourceDependency(e, GetResourceMetadata(rm, resourceType, e.name), resourceName) # << >>) |->
       [type |-> "resource",
        name |-> SelectSeq(SubSeq(resources, i, Len(resources)),
                           LAMBDA e : ResourceDependency(e, GetResourceMetadata(rm, resourceType, e.name), resourceName) # << >>)[k].name,
        path |-> SelectSeq(SubSeq(resources, i, Len(resources)),
                           LAMBDA e : ResourceDependency(e, GetResourceMetadata(rm, resourceType, e.name), resourceName) # << >>)[k].path]])

\* the loop over the resources of the type in checkDependencies
RECURSIVE ResourceDependencies(_, _, _, _, _)
ResourceDependencies(rm, resources, i, resourceType, resourceName) ==
  IF i > Len(resources) THEN << >>
  ELSE ResourceDependency(resources[i],
                          GetResourceMetadata(rm, resourceType, resources[i].name),
                          resourceName)
       \o ResourceDependencies(rm, resources, i + 1, resourceType, resourceName)

\* the DependencyCheckResult, with the path it was computed for
CheckResult(resourcePath, dependencies) ==
  IF resourcePath = Null THEN Err("ResourceNotFound")
  ELSE Ok([hasActive |-> Len(dependencies) > 0,
           dependencies |-> dependencies,
           isCore |-> IsCoreResource(resourcePath),
           resourcePath |-> resourcePath])

\* a check that fails when an agent in the listing cannot be loaded
CheckStopsAtAgent(f, ac, rm, resourceName, resourceType) ==
  IF \E i \in DOMAIN ListAgents(f, ac) : ~LoadAgent(f, ac, ListAgents(f, ac)[i]).ok
    THEN Err("ReadFailed")
    ELSE CheckResult(
           GetResourcePath(f, ac, resourceType, resourceName),
           AgentDependencies(f, ac, ListAgents(f, ac), 1, resourceName)
           \o ResourceDependencies(rm, ListResources(f, ac, resourceType), 1,
                                   resourceType, resourceName))

\* SafeDeleteManager.checkDependencies
CheckDependencies(f, ac, rm, resourceName, resourceType) ==
  CheckResult(
    GetResourcePath(f, ac, resourceType, resourceName),
    AgentDependencies(f, ac, ListAgents(f, ac), 1, resourceName)
    \o ResourceDependencies(rm, ListResources(f, ac, resourceType), 1,
                            resourceType, resourceName))

\* the copy and the metadata document written into the backup directory
BackupInto(f1, backupPath, originalPath, metadata, copyFails) ==
  IF copyFails THEN Wrote(f1, Err("CopyFailed"))
  ELSE Wrote(WriteFile(Copy(f1, originalPath,
                            PathJoin(<< backupPath, Basename(originalPath) >>)),
                       PathJoin(<< backupPath, << "metadata.json" >> >>),
                       metadata),
             Ok(backupPath))

CreateBackupAt(f, timestamp, backupPath, originalPath, resourceName, resourceType, dependencies, copyFails) ==
  IF originalPath = Null THEN Wrote(f, Err("ResourceNotFound"))
  ELSE BackupInto(EnsureDir(f, backupPath), backupPath, originalPath,
                  [timestamp |-> timestamp, resourceName |-> resourceName,
                   resourceType |-> resourceType, dependencies |-> dependencies,
                   originalPath |-> originalPath],
                  copyFails)

\* SafeDeleteManager.createBackup; copyFails: fs.copy raises an I/O error
CreateBackup(f, ac, t, resourceName, resourceType, dependencies, copyFails) ==
  CreateBackupAt(f, Stamp(t),
                 PathJoin(<< BackupDir, resourceName \o << "-" >> \o Stamp(t) >>),
                 GetResourcePath(f, ac, resourceType, resourceName),
                 resourceName, resourceType, dependencies, copyFails)

\* a restore that moves the copy out of the backup directory
RestoreMove(f, backupFile, originalPath, copyFails) ==
  IF ~PathExists(f, backupFile) \/ copyFails THEN Wrote(f, Err("CopyFailed"))
  ELSE Wrote(Move(f, backupFile, originalPath), Ok(originalPath))

\* fs.copy(backupFile, originalPath): it raises when the source is missing,
\* when one of the two is a directory and the other is not, and on an I/O error
RestoreCopy(f, backupFile, originalPath, copyFails) ==
  IF ~PathExists(f, backupFile) \/ copyFails THEN Wrote(f, Err("CopyFailed"))
  ELSE IF PathExists(f, originalPath) /\ IsDir(f, backupFile) # IsDir(f, originalPath)
    THEN Wrote(f, Err("CopyFailed"))
  ELSE Wrote(Copy(f, backupFile, originalPath), Ok(originalPath))

RestoreTo(f, backupPath, originalPath, copyFails) ==
  IF ~PathExists(f, Dirname(originalPath)) THEN Wrote(f, Err("StaleLocation"))
  ELSE RestoreCopy(f, PathJoin(<< backupPath, Basename(originalPath) >>),
                   originalPath, copyFails)

\* a restore that reports success and copies nothing
RestoreNothing(f, backupPath, metadataPath, copyFails) == Wrote(f, Ok(backupPath))

\* the content of a file that is not JSON
Garbled == [garbled |-> TRUE]

\* fs.readJSON: the document, or the SyntaxError of JSON.parse
ReadJSON(f, p) ==
  IF f[Key(p)].content = Garbled THEN Err("SyntaxError") ELSE Ok(f[Key(p)].content)

\* a reader that reports a file that is not JSON as an invalid backup
ReadJSONOrInvalid(f, p) ==
  IF f[Key(p)].content = Garbled THEN Err("InvalidBackup") ELSE Ok(f[Key(p)].content)

RestoreRead(f, backupPath, metadata, copyFails) ==
  IF ~metadata.ok THEN Wrote(f, metadata)
  ELSE RestoreTo(f, backupPath, metadata.value.originalPath, copyFails)

RestoreWith(f, backupPath, metadataPath, copyFails) ==
  IF ~PathExists(f, metadataPath) THEN Wrote(f, Err("InvalidBackup"))
  ELSE RestoreRead(f, backupPath, ReadJSON(f, metadataPath), copyFails)

\* SafeDeleteManager.restoreBackup; copyFails: fs.copy raises an I/O error
RestoreBackup(f, backupPath, copyFails) ==
  RestoreWith(f, backupPath, PathJoin(<< backupPath, << "metadata.json" >> >>), copyFails)

\* deps.splice(deps.indexOf(resourceName), 1): the first occurrence is dropped
SpliceFirst(deps, resourceName) ==
  IF \E i \in DOMAIN deps : deps[i] = resourceName
    THEN SelectSeq([i \in DOMAIN deps |->
                      IF deps[i] = resourceName
                           /\ \A j \in 1..(i - 1) : deps[j] # resourceName
                        THEN Null ELSE [kind |-> "kept", v |-> deps[i]]],
                   LAMBDA e : e # Null)
    ELSE deps

\* the agent with resourceName dropped from each of its dependency arrays
Rewritten(agent, resourceName) ==
  [agent EXCEPT !.definition.dependencies =
     [k \in DOMAIN agent.definition.dependencies |->
        SpliceFirst(agent.definition.dependencies[k], resourceName)]]

RECURSIVE UpdateDependencies(_, _, _, _, _)
UpdateSaved(saved, ac, resourceName, dependencies, i) ==
  IF ~saved.res.ok THEN saved
  ELSE UpdateDependencies(saved.fs, ac, resourceName, dependencies, i + 1)

UpdateAgent(f, ac, resourceName, dependencies, i, loaded) ==
  IF ~loaded.ok THEN Wrote(f, Err(loaded.error))
  ELSE IF "definition" \notin DOMAIN loaded.value THEN Wrote(f, Err("TypeError"))
  ELSE UpdateSaved(SaveAgent(f, Rewritten(loaded.value, resourceName)),
                   ac, resourceName, dependencies, i)

\* SafeDeleteManager.updateDependencies, from the i-th recorded dependent on
UpdateDependencies(f, ac, resourceName, dependencies, i) ==
  IF i > Len(dependencies) THEN Wrote(f, Ok("updated"))
  ELSE IF dependencies[i].type # "agent"
    THEN UpdateDependencies(f, ac, resourceName, dependencies, i + 1)
  ELSE UpdateAgent(f, ac, resourceName, dependencies, i,
                   LoadAgent(f, ac, dependencies[i].name))

RemoveInterruptedKey(f, k) ==
  [q \in { r \in DOMAIN f : r = k \/ ~IsAtOrUnder(r, k) } |-> f[q]]

\* what fs.remove leaves when it raises an I/O error: a file is untouched, a
\* directory has lost its entries and is still there
RemoveInterrupted(f, p) == RemoveInterruptedKey(f, Key(p))

\* { ...defaultOptions, ...options }
DefaultOptions == [force |-> FALSE, updateDeps |-> FALSE, skipBackup |-> FALSE]

FullOptions(options) ==
  [k \in DOMAIN DefaultOptions |-> IF k \in DOMAIN options THEN options[k] ELSE DefaultOptions[k]]

NoFaults == [backupCopy |-> FALSE, remove |-> FALSE, restoreCopy |-> FALSE]

\* a step of safeDelete: the tree it leaves, its result, the steps taken
Step(f, res, steps) == [fs |-> f, res |-> res, steps |-> steps]

Updated(upd) == Step(upd.fs, upd.res, << "remove", "update" >>)

MutateAt(f, ac, resourceName, fullOptions, dependencies, faults, resourcePath) ==
  IF resourcePath = Null THEN Step(f, Err("ResourceNotFound"), << >>)
  ELSE IF faults.remove
    THEN Step(RemoveInterrupted(f, resourcePath), Err("RemoveFailed"), << "remove" >>)
  ELSE IF fullOptions.updateDeps
    THEN Updated(UpdateDependencies(Remove(f, resourcePath), ac, resourceName,
                                    dependencies, 1))
  ELSE Step(Remove(f, resourcePath), Ok("deleted"), << "remove" >>)

\* the try block of safeDelete (steps 5 to 7) on tree f
Mutate(f, ac, resourceName, resourceType, fullOptions, dependencies, faults) ==
  MutateAt(f, ac, resourceName, fullOptions, dependencies, faults,
           GetResourcePath(f, ac, resourceType, resourceName))

\* the record of one safeDelete call
Run(f, res, chk, backupPath, steps, original, restore) ==
  [fs |-> f, res |-> res, check |-> chk, backupPath |-> backupPath,
   steps |-> steps, original |-> original, restore |-> restore]

\* the catch block after restoreBackup has run: its error is the one raised
Restored(restore, chk, backupPath, steps, error) ==
  IF restore.res.ok
    THEN Run(restore.fs, Err(error), chk, backupPath, steps \o << "restore" >>, error, "ok")
    ELSE Run(restore.fs, Err(restore.res.error), chk, backupPath,
             steps \o << "restore" >>, error, restore.res.error)

\* an end of safeDelete that restores the backup whether or not the try block raised
AlwaysRestore(mut, chk, backupPath, steps, faults) ==
  IF backupPath = Null
    THEN Run(mut.fs, mut.res, chk, backupPath, steps \o mut.steps,
             IF mut.res.ok THEN "none" ELSE mut.res.error, "none")
    ELSE Restored(RestoreBackup(mut.fs, backupPath, faults.restoreCopy),
                  chk, backupPath, steps \o mut.steps,
                  IF mut.res.ok THEN "none" ELSE mut.res.error)

\* the end of safeDelete: the catch block (step 8) when the try block raised
AfterMutate(mut, chk, backupPath, steps, faults) ==
  IF mut.res.ok
    THEN Run(mut.fs, mut.res, chk, backupPath, steps \o mut.steps, "none", "none")
  ELSE IF backupPath = Null
    THEN Run(mut.fs, mut.res, chk, backupPath, steps \o mut.steps, mut.res.error, "none")
  ELSE Restored(RestoreBackup(mut.fs, backupPath, faults.restoreCopy),
                chk, backupPath, steps \o mut.steps, mut.res.error)

\* a step 4 whose failure does not stop the call
BackupFailureIgnored(backup, ac, resourceName, resourceType, fullOptions, chk, faults) ==
  AfterMutate(Mutate(backup.fs, ac, resourceName, resourceType, fullOptions,
                     chk.dependencies, faults),
              chk, Null, << "check", "gate", "backup" >>, faults)

\* safeDelete after step 4, the backup
AfterBackup(backup, ac, resourceName, resourceType, fullOptions, chk, faults) ==
  IF ~backup.res.ok
    THEN Run(backup.fs, backup.res, chk, Null, << "check", "gate", "backup" >>,
             "none", "none")
    ELSE AfterMutate(Mutate(backup.fs, ac, resourceName, resourceType, fullOptions,
                            chk.dependencies, faults),
                     chk, backup.res.value, << "check", "gate", "backup" >>, faults)

\* a gate that lets every call through
GateOpen(dependencyCheck, fullOptions) == FALSE

\* step 3 of safeDelete: active dependencies stop a call that is not forced
Gate(dependencyCheck, fullOptions) == dependencyCheck.hasActive /\ ~fullOptions.force

\* a step 4 that takes a backup whatever the options
NeverSkipped(fullOptions) == FALSE

\* step 4 of safeDelete: no backup when skipBackup is set
BackupSkipped(fullOptions) == fullOptions.skipBackup

\* dependencies.map(d => `${d.type} ${d.name}`), the list the error message carries
DepList(dependencies) ==
  [i \in 1..Len(dependencies) |->
     [type |-> dependencies[i].type, name |-> dependencies[i].name]]

DependenciesExist(dependencies) ==
  [ok |-> FALSE, error |-> "DependenciesExist", depList |-> DepList(dependencies)]

\* safeDelete after step 1: the core check, the gate, the backup unless skipped
AfterCheck(f, ac, t, resourceName, resourceType, fullOptions, faults, dependencyCheck) ==
  IF ~dependencyCheck.ok
    THEN Run(f, dependencyCheck, Null, Null, << "check" >>, "none", "none")
  ELSE IF dependencyCheck.value.isCore
    THEN Run(f, Err("CoreResourceProtected"), dependencyCheck.value, Null,
             << "check" >>, "none", "none")
  ELSE IF Gate(dependencyCheck.value, fullOptions)
    THEN Run(f, DependenciesExist(dependencyCheck.value.dependencies),
             dependencyCheck.value, Null,
             << "check", "gate" >>, "none", "none")
  ELSE IF BackupSkipped(fullOptions)
    THEN AfterMutate(Mutate(f, ac, resourceName, resourceType, fullOptions,
                            dependencyCheck.value.dependencies, faults),
                     dependencyCheck.value, Null, << "check", "gate" >>, faults)
  ELSE AfterBackup(CreateBackup(f, ac, t, resourceName, resourceType,
                                dependencyCheck.value.dependencies, faults.backupCopy),
                   ac, resourceName, resourceType, fullOptions,
                   dependencyCheck.value, faults)

\* SafeDeleteManager.safeDelete on an initialised manager
SafeDelete(f, ac, rm, t, resourceName, resourceType, options, faults) ==
  AfterCheck(f, ac, t, resourceName, resourceType, FullOptions(options), faults,
             CheckDependencies(f, ac, rm, resourceName, resourceType))

\* ----------------------------------------------------------- uninstallers
Home == << Sep, "home" >>

LcagentsDir == Cwd \o << Sep, ".lcagents" >>

GithubWorkflowsDir == Cwd \o << Sep, ".github", Sep, "workflows" >>

GithubTemplatesDir == Cwd \o << Sep, ".github", Sep, "ISSUE_TEMPLATE" >>

LcagentsWorkflows == << << "lcagents-validation.yml" >>, << "lcagents-docs.yml" >> >>

LcagentsTemplates == << << "agent-request.md" >>, << "bug-report.md" >> >>

HasAlias(content) ==
  \E i \in DOMAIN content :
    \/ Includes(content[i], << "alias lcagent=" >>)
    \/ Includes(content[i], << "alias lcagents=" >>)

FilteredLines(content) ==
  SelectSeq(content, LAMBDA line : /\ ~Includes(line, << "alias lcagent=" >>)
                                   /\ ~Includes(line, << "alias lcagents=" >>)
                                   /\ ~Includes(line, << "# LCAgents alias" >>))

\* removeShellAlias with the configuration file chosen; withScript: the
\* standalone uninstaller also writes the script that unaliases the session
RemoveAliasIn(f, configFile, withScript) ==
  IF configFile = Null THEN f
  ELSE IF ~PathExists(f, configFile) \/ IsDir(f, configFile) THEN f
  ELSE IF ~HasAlias(f[Key(configFile)].content) THEN f
  ELSE IF withScript
    THEN WriteFile(WriteFile(f, configFile, FilteredLines(f[Key(configFile)].content)),
                   << Sep, "tmp", Sep, "lcagents-unalias.sh" >>, << "unalias" >>)
  ELSE WriteFile(f, configFile, FilteredLines(f[Key(configFile)].content))

\* removeShellAlias: the configuration file is that of the shell, and there is
\* none for an unsupported shell
RemoveShellAlias(f, shell, withScript) ==
  RemoveAliasIn(f,
                IF Includes(shell, << "zsh" >>) THEN PathJoin(<< Home, << ".zshrc" >> >>)
                ELSE IF Includes(shell, << "bash" >>)
                  THEN IF PathExists(f, PathJoin(<< Home, << ".bash_profile" >> >>))
                         THEN PathJoin(<< Home, << ".bash_profile" >> >>)
                         ELSE PathJoin(<< Home, << ".bashrc" >> >>)
                ELSE Null,
                withScript)

\* the loops that remove the files of the names under a directory of .github
RECURSIVE RemoveNamed(_, _, _, _)
RemoveNamed(f, dir, names, i) ==
  IF i > Len(names) THEN f
  ELSE RemoveNamed(Remove(f, PathJoin(<< dir, names[i] >>)), dir, names, i + 1)

RemoveGithubFiles(f) ==
  RemoveNamed(RemoveNamed(f, GithubWorkflowsDir, LcagentsWorkflows, 1),
              GithubTemplatesDir, LcagentsTemplates, 1)

\* the removal of everything in .lcagents but the two configuration files
RECURSIVE RemoveItems(_, _, _)
RemoveItems(f, items, i) ==
  IF i > Len(items) THEN f
  ELSE IF items[i] \in { << "config.yaml" >>, << "user-settings.yaml" >> }
    THEN RemoveItems(f, items, i + 1)
  ELSE RemoveItems(Remove(f, PathJoin(<< LcagentsDir, items[i] >>)), items, i + 1)

\* GitHubCopilotManager.removeCopilotInstructions
RemoveCopilotInstructions(f) ==
  Remove(f, Cwd \o << Sep, ".github", Sep, "copilot-instructions.md" >>)

\* an uninstall command that takes every answer for a yes
AlwaysConfirmed(force, answer) == TRUE

\* confirmed = options.force, or the answer to the prompt
Confirmed(force, answer) == force \/ answer

\* ------------------------------------------------------------------ state
VARIABLES
  fs,            \* the file tree
  activeCore,    \* CoreSystemManager.getActiveCoreSystem(), NoCore when absent
  resourceMeta,  \* what ResourceResolver.getResourceMetadata answers, by name
  now,           \* the clock, in timestamp units
  manager,       \* the SafeDeleteManager: "pending" while initialize() has not
                 \* assigned layerManager, then "ready", or "failed"
  last           \* the last call and what it returned or raised

vars == << fs, activeCore, resourceMeta, now, manager, last >>

\* ----------------------------------------------------------------- inputs
Core == << "bmad" >>

Templates == << "templates" >>

X == << "x" >>

Y == << "y" >>

\* a resource name that climbs out of the core directory of its type
UpToCustomX ==
  << "..", Sep, "..", Sep, "..", Sep, "custom", Sep, "templates", Sep, "x" >>

ResourceNames == { X, UpToCustomX }

AgentA == << "a" >>

Overrides == << "overrides" >>


\* no call is in flight
Idle == [op |-> "idle"]

\* the text of an agent definition that declares the given template dependencies
AgentText(deps) == [declares |-> [templates |-> deps]]

\* ------------------------------------------------------------------- Init
\* the tree createLayeredStructure scaffolds, with the core system installed
RECURSIVE EnsureDirs(_, _)
EnsureDirs(f, dirs) ==
  IF dirs = {} THEN f
  ELSE LET d == CHOOSE v \in dirs : TRUE IN EnsureDirs(EnsureDir(f, d), dirs \ { d })

Scaffold ==
  EnsureDirs(<< >>,
             { LayerDir(Core, "core", << "agents" >>),
               LayerDir(Core, "core", Templates),
               PathJoin(<< LayerDir(Core, "org", << "agents" >>), Overrides >>),
               PathJoin(<< LayerDir(Core, "org", Templates), Overrides >>),
               PathJoin(<< LayerDir(Core, "custom", << "agents" >>), Overrides >>),
               PathJoin(<< LayerDir(Core, "custom", Templates), Overrides >>) })

\* LayerManager.createLayeredStructure: every resource type gets a directory
\* in each layer, and an 'overrides' directory in the org and custom layers
CreateLayeredStructure(f) ==
  EnsureDirs(f,
             { PathJoin(<< LcagentsPath, << layer >>, ResourceTypes[i] >>) :
                 layer \in { "core", "org", "custom" }, i \in DOMAIN ResourceTypes }
             \cup { PathJoin(<< LcagentsPath, << layer >>, ResourceTypes[i], Overrides >>) :
                      layer \in { "org", "custom" }, i \in DOMAIN ResourceTypes })

RECURSIVE WriteAll(_, _)
WriteAll(f, files) ==
  IF files = {} THEN f
  ELSE LET w == CHOOSE v \in files : TRUE
       IN WriteAll(WriteFile(f, w[1], w[2]), files \ { w })

\* what the custom layer holds under the name x: nothing, a file, or a
\* directory with one file in it
CustomShapes == { Null, DirNode } \cup { FileNode(c) : c \in 1..MaxContent }

\* the template files of a layer, each with content 1
TemplateFiles(layer, names) ==
  { << PathJoin(<< LayerDir(Core, layer, Templates), n >>), 1 >> : n \in names }

CustomXPath == Cwd \o << Sep, ".lcagents", Sep, "custom", Sep, "templates", Sep, "x" >>

CustomTree(f, customX) ==
  IF customX = Null THEN f
  ELSE IF customX = DirNode
    THEN WriteFile(EnsureDir(f, CustomXPath), CustomXPath \o << Sep, "part" >>, 1)
  ELSE WriteFile(f, CustomXPath, customX.content)

AgentTree(f, agentText) ==
  IF agentText = Null THEN f
  ELSE WriteFile(f, PathJoin(<< LayerDir(Core, "core", << "agents" >>), AgentFile(AgentA) >>),
                 agentText)

InitialTree(coreNames, orgNames, customNames, customX, agentText) ==
  AgentTree(CustomTree(WriteAll(Scaffold,
                                TemplateFiles("core", coreNames)
                                \cup TemplateFiles("org", orgNames)
                                \cup TemplateFiles("custom", customNames)),
                       customX),
            agentText)

MetaOf(deps) == [dependencies |-> deps]

\* an installation whose core layer holds y and perhaps x, whose custom layer
\* holds x or not, with an agent a and a metadata document of y that declare
\* x (under both of its names) or not
Init ==
  /\ activeCore \in { NoCore, Core }
  /\ \E coreNames \in { { Y }, { X, Y } }, customX \in CustomShapes,
        agentText \in { Null, AgentText(<< X, UpToCustomX >>) } :
       fs = InitialTree(coreNames, {}, {}, customX, agentText)
  /\ \E yMeta \in { Null, MetaOf({ X, UpToCustomX }) } :
       resourceMeta = [n \in { X, Y } |-> IF n = Y THEN yMeta ELSE MetaOf({})]
  /\ now = 1
  /\ manager = "pending"
  /\ last = Idle

\* the agents directory of the core layer: removed, empty, or holding a.md
AgentsTree(f, agents) ==
  IF agents = "absent" THEN Remove(f, LayerDir(Core, "core", << "agents" >>))
  ELSE IF agents = "a" THEN AgentTree(f, AgentText(<< X >>))
  ELSE f

\* the override file of agent a in the org or custom layer
OverrideTree(f, layer, present) ==
  IF present
    THEN WriteFile(f, PathJoin(<< LayerDir(Core, layer, << "agents" >>), Overrides,
                                  OverrideFile(AgentA) >>), 1)
    ELSE f

\* an installation with any of the templates x and y in each of the layers,
\* with or without agent a and its override files
InitLayers ==
  /\ activeCore \in { NoCore, Core }
  /\ \E coreNames \in SUBSET { X, Y }, orgNames \in SUBSET { X, Y },
        customNames \in SUBSET { X, Y }, agents \in { "absent", "empty", "a" },
        orgOverride \in BOOLEAN, customOverride \in BOOLEAN :
       fs = OverrideTree(
              OverrideTree(
                AgentsTree(InitialTree(coreNames, orgNames, customNames, Null, Null),
                           agents),
                "org", orgOverride),
              "custom", customOverride)
  /\ resourceMeta = [n \in { X, Y } |-> MetaOf({})]
  /\ now = 1
  /\ manager = "pending"
  /\ last = Idle

\* a third template
Z == << "z" >>

\* the agents of the core layer: none, a.md, b.md that is a directory and so
\* cannot be read, both
CheckAgentsTree(f, agents) ==
  IF agents = "a" THEN AgentTree(f, AgentText(<< X, UpToCustomX >>))
  ELSE IF agents = "broken"
    THEN EnsureDir(f, PathJoin(<< LayerDir(Core, "core", << "agents" >>),
                                  AgentFile(<< "b" >>) >>))
  ELSE IF agents = "both"
    THEN EnsureDir(AgentTree(f, AgentText(<< X, UpToCustomX >>)),
                   PathJoin(<< LayerDir(Core, "core", << "agents" >>),
                               AgentFile(<< "b" >>) >>))
  ELSE f

\* an installation with templates x, y, z spread over the layers, agents that
\* load or not, and metadata of x, y, z that declare x or not
InitCheck ==
  /\ activeCore \in { NoCore, Core }
  /\ \E coreNames \in { { X }, { Y }, { X, Y } }, orgNames \in { {}, { Y } },
        customNames \in SUBSET { X, Z }, agents \in { "none", "a", "broken", "both" } :
       fs = CheckAgentsTree(InitialTree(coreNames, orgNames, customNames, Null, Null),
                            agents)
  /\ \E xMeta \in { MetaOf({}), MetaOf({ X }) },
        yMeta \in { Null, MetaOf({ X, UpToCustomX }) },
        zMeta \in { Null, MetaOf({ X, UpToCustomX }) } :
       resourceMeta = [n \in { X, Y, Z } |->
                         IF n = X THEN xMeta ELSE IF n = Y THEN yMeta ELSE zMeta]
  /\ now = 1
  /\ manager = "pending"
  /\ last = Idle

\* a flat resource directory: absent, empty, or holding a file f
FlatTree(f, type, shape) ==
  IF shape = "absent" THEN f
  ELSE IF shape = "empty" THEN EnsureDir(f, PathJoin(<< LcagentsPath, type >>))
  ELSE WriteFile(EnsureDir(f, PathJoin(<< LcagentsPath, type >>)),
                 PathJoin(<< LcagentsPath, type, << "f" >> >>), 1)

\* a resource directory of the core layer: absent, holding a file g, or
\* holding a file f of another content
CoreTree(f, type, shape) ==
  IF shape = "absent" THEN f
  ELSE WriteFile(EnsureDir(f, LayerDir(Core, "core", type)),
                 PathJoin(<< LayerDir(Core, "core", type), << shape >> >>), 2)

\* an installation of the flat structure, with or without resource
\* directories of a core system 'bmad' beside it
InitMigrate ==
  /\ activeCore = Core
  /\ \E flatAgents \in { "absent", "empty", "f" },
        flatTemplates \in { "absent", "empty", "f" },
        flatData \in { "absent", "f" },
        coreAgents \in { "absent", "g", "f" }, coreTemplates \in { "absent", "g", "f" } :
       fs = CoreTree(
              CoreTree(
                FlatTree(
                  FlatTree(
                    FlatTree(EnsureDir(<< >>, LcagentsPath), << "agents" >>, flatAgents),
                    Templates, flatTemplates),
                  << "data" >>, flatData),
                << "agents" >>, coreAgents),
              Templates, coreTemplates)
  /\ resourceMeta = [n \in { X, Y } |-> MetaOf({})]
  /\ now = 1
  /\ manager = "pending"
  /\ last = Idle

\* the shells of the environment: zsh, bash, another, none
Shells ==
  { << Sep, "bin", Sep, "zsh" >>, << Sep, "bin", Sep, "bash" >>,
    << Sep, "bin", Sep, "fish" >>, << >> }

\* a shell configuration file: absent, without aliases, with the aliases
RcTree(f, name, shape) ==
  IF shape = "absent" THEN f
  ELSE WriteFile(f, PathJoin(<< Home, name >>),
                 IF shape = "plain" THEN << << "export PATH" >> >>
                 ELSE << << "export PATH" >>,
                         << "# LCAgents alias", " for easy access" >>,
                         << "alias lcagent=", "cmd" >>,
                         << "alias lcagents=", "cmd" >> >>)

\* the files under .github: those of the installer or only one of the user
GithubTree(f, installed) ==
  IF installed
    THEN WriteAll(f, { << PathJoin(<< GithubWorkflowsDir, LcagentsWorkflows[1] >>), 1 >>,
                       << PathJoin(<< GithubWorkflowsDir, << "ci.yml" >> >>), 1 >>,
                       << PathJoin(<< GithubTemplatesDir, LcagentsTemplates[2] >>), 1 >> })
    ELSE WriteAll(f, { << PathJoin(<< GithubWorkflowsDir, << "ci.yml" >> >>), 1 >> })

\* a project directory with or without an installation (.lcagents with its
\* configuration file and the core layer), and the shell configuration files
\* of the user
InitUninstall ==
  /\ activeCore = Core
  /\ \E installed \in BOOLEAN, github \in BOOLEAN, zshrc \in { "absent", "plain", "aliases" },
        bashProfile \in { "absent", "aliases" }, bashrc \in { "absent", "aliases" } :
       fs = RcTree(
              RcTree(
                RcTree(GithubTree(
                         IF installed
                           THEN WriteFile(EnsureDir(EnsureDir(EnsureDir(<< >>, Cwd), Home),
                                                    LayerDir(Core, "core", Templates)),
                                          PathJoin(<< LcagentsDir, << "config.yaml" >> >>), 1)
                           ELSE EnsureDir(EnsureDir(<< >>, Cwd), Home),
                         github),
                       << ".zshrc" >>, zshrc),
                << ".bash_profile" >>, bashProfile),
              << ".bashrc" >>, bashrc)
  /\ resourceMeta = [n \in { X, Y } |-> MetaOf({})]
  /\ now = 1
  /\ manager = "pending"
  /\ last = Idle

\* the backup a safeDelete of x by its climbing name made at an earlier time
OldBackup == << Sep, "custom", Sep, "templates", Sep, "x", "-", "T", "0" >>

\* the metadata.json of the earlier backup: absent, garbled, or the metadata
\* createBackup wrote for x in the custom layer
MetadataTree(f, metadata) ==
  IF metadata = "absent" THEN f
  ELSE WriteFile(f, OldBackup \o << Sep, "metadata.json" >>,
                 IF metadata = "garbled" THEN Garbled
                 ELSE [timestamp |-> << "T", "0" >>, resourceName |-> UpToCustomX,
                       resourceType |-> Templates, dependencies |-> << >>,
                       originalPath |-> CustomXPath])

\* the copy of x the earlier backup holds: none, a file, a directory with a file
CopyTree(f, copy) ==
  IF copy = Null THEN f
  ELSE IF copy = DirNode
    THEN WriteFile(EnsureDir(f, OldBackup \o << Sep, "x" >>),
                   OldBackup \o << Sep, "x", Sep, "part" >>, 1)
  ELSE WriteFile(f, OldBackup \o << Sep, "x" >>, copy.content)

\* an installation with an earlier backup of x, whose metadata and copy are
\* there or not, with x there again or not since (as a directory, with or
\* without a file the backup does not hold), the templates directory removed
\* or not
InitRestore ==
  /\ activeCore = Core
  /\ \E metadata \in { "absent", "garbled", "valid" }, copy \in CustomShapes, customX \in CustomShapes,
        parentRemoved \in BOOLEAN, extra \in BOOLEAN :
       /\ extra => customX = DirNode
       /\ parentRemoved => customX = Null
       /\ fs = IF parentRemoved
                 THEN Remove(MetadataTree(
                               CopyTree(EnsureDir(InitialTree({ Y }, {}, {}, Null, Null),
                                                  OldBackup),
                                        copy),
                               metadata),
                             LayerDir(Core, "custom", Templates))
                 ELSE MetadataTree(
                        CopyTree(EnsureDir(
                                   IF extra
                                     THEN WriteFile(InitialTree({ Y }, {}, {}, customX, Null),
                                                    CustomXPath \o << Sep, "extra" >>, 1)
                                     ELSE InitialTree({ Y }, {}, {}, customX, Null),
                                   OldBackup),
                                 copy),
                        metadata)
  /\ resourceMeta = [n \in { X, Y } |-> MetaOf({})]
  /\ now = 1
  /\ manager = "pending"
  /\ last = Idle

\* ---------------------------------------------------------------- actions
\* CoreSystemManager.getActiveCoreConfig(): present exactly when a core system is active
GetActiveCoreConfig(ac) == IF ac = NoCore THEN Null ELSE [name |-> ac]

\* SafeDeleteManager.initialize, started by the constructor and not awaited
Initialize ==
  /\ last = Idle
  /\ manager = "pending"
  /\ IF GetActiveCoreConfig(activeCore) = Null
       THEN /\ manager' = "failed"
            /\ fs' = fs
       ELSE /\ manager' = "ready"
            /\ fs' = EnsureDir(fs, BackupDir)
  /\ UNCHANGED << activeCore, resourceMeta, now, last >>

\* safeDelete(resourceName, 'templates', options)
SafeDeleteReturns(resourceName, options, faults, run) ==
  /\ fs' = run.fs
  /\ last' = [op |-> "safeDelete", name |-> resourceName,
              options |-> FullOptions(options), faults |-> faults, res |-> run.res,
              check |-> run.check, backupPath |-> run.backupPath,
              steps |-> run.steps, original |-> run.original,
              restore |-> run.restore]

\* a call made before initialize() has assigned this.layerManager reads a
\* property of undefined
SafeDeleteCall(resourceName, options, faults) ==
  /\ last = Idle
  /\ SafeDeleteReturns(resourceName, options, faults,
       IF manager = "ready"
         THEN SafeDelete(fs, activeCore, resourceMeta, now, resourceName,
                         Templates, options, faults)
         ELSE Run(fs, Err("TypeError"), Null, Null, << >>, "none", "none"))
  /\ UNCHANGED << activeCore, resourceMeta, now, manager >>

\* checkDependencies(resourceName, 'templates')
CheckDependenciesCall(resourceName) ==
  /\ last = Idle
  /\ last' = [op |-> "checkDependencies", name |-> resourceName,
              res |-> IF manager = "ready"
                        THEN CheckDependencies(fs, activeCore, resourceMeta,
                                               resourceName, Templates)
                        ELSE Err("TypeError")]
  /\ UNCHANGED << fs, activeCore, resourceMeta, now, manager >>

\* the directories that hold a metadata.json, the earlier backup, and a
\* directory that does not exist
BackupCandidates ==
  { PathOf(SubSeq(q, 1, Len(q) - 1)) :
      q \in { r \in DOMAIN fs : Len(r) > 0 /\ r[Len(r)] = << "metadata.json" >> } }
  \cup { p \in { OldBackup } : PathExists(fs, p) }
  \cup { Abs(PathJoin(<< BackupDir, << "missing" >> >>)) }

\* restoreBackup(backupPath)
RestoreBackupReturns(backupPath, copyFails, r) ==
  /\ fs' = r.fs
  /\ last' = [op |-> "restoreBackup", backupPath |-> backupPath,
              copyFails |-> copyFails, res |-> r.res]

RestoreBackupCall(backupPath, copyFails) ==
  /\ last = Idle
  /\ RestoreBackupReturns(backupPath, copyFails, RestoreBackup(fs, backupPath, copyFails))
  /\ UNCHANGED << activeCore, resourceMeta, now, manager >>

\* resolveTemplate(templateName)
ResolveTemplateCall(templateName) ==
  /\ last = Idle
  /\ last' = [op |-> "resolveTemplate", name |-> templateName,
              res |-> ResolveTemplate(fs, activeCore, templateName)]
  /\ UNCHANGED << fs, activeCore, resourceMeta, now, manager >>

\* the core system a caller may name in place of the active one
OtherCore == << "alt" >>

\* resolveAgent(agentId, coreSystem); coreSystem << >> when none is given
ResolveAgentCall(agentId, coreSystem) ==
  /\ last = Idle
  /\ last' = [op |-> "resolveAgent", agentId |-> agentId, coreSystem |-> coreSystem,
              res |-> Ok(ResolveAgent(fs, activeCore, agentId, coreSystem))]
  /\ UNCHANGED << fs, activeCore, resourceMeta, now, manager >>

\* listAgents()
ListAgentsCall ==
  /\ last = Idle
  /\ last' = [op |-> "listAgents", res |-> Ok(ListAgents(fs, activeCore))]
  /\ UNCHANGED << fs, activeCore, resourceMeta, now, manager >>

\* listResources('templates')
ListResourcesCall ==
  /\ last = Idle
  /\ last' = [op |-> "listResources", name |-> Templates,
              res |-> Ok(ListResources(fs, activeCore, Templates))]
  /\ UNCHANGED << fs, activeCore, resourceMeta, now, manager >>

\* getResourcePath('templates', resourceName)
GetResourcePathCall(resourceName) ==
  /\ last = Idle
  /\ last' = [op |-> "getResourcePath", name |-> resourceName,
              res |-> Ok(GetResourcePath(fs, activeCore, Templates, resourceName))]
  /\ UNCHANGED << fs, activeCore, resourceMeta, now, manager >>

\* readResource('templates', resourceName)
ReadResourceCall(resourceName) ==
  /\ last = Idle
  /\ last' = [op |-> "readResource", name |-> resourceName,
              res |-> ReadResource(fs, activeCore, Templates, resourceName)]
  /\ UNCHANGED << fs, activeCore, resourceMeta, now, manager >>

\* the caller has the result of its call, and the next call can be made
Return ==
  /\ last # Idle
  /\ last' = Idle
  /\ UNCHANGED << fs, activeCore, resourceMeta, now, manager >>

\* the clock advances between two calls
Tick ==
  /\ last = Idle
  /\ now < MaxTime
  /\ now' = now + 1
  /\ UNCHANGED << fs, activeCore, resourceMeta, manager, last >>

Next ==
  \/ Initialize
  \/ \E n \in ResourceNames,
        o \in [force : BOOLEAN, updateDeps : BOOLEAN, skipBackup : BOOLEAN],
        ft \in { NoFaults,
                 [NoFaults EXCEPT !.backupCopy = TRUE],
                 [NoFaults EXCEPT !.remove = TRUE],
                 [NoFaults EXCEPT !.remove = TRUE, !.restoreCopy = TRUE] } :
       SafeDeleteCall(n, o, ft)
  \/ \E n \in ResourceNames : CheckDependenciesCall(n)
  \/ \E n \in ResourceNames : GetResourcePathCall(n)
  \/ \E n \in ResourceNames : ReadResourceCall(n)
  \/ \E b \in BackupCandidates, c \in BOOLEAN : RestoreBackupCall(b, c)
  \/ Return
  \/ Tick

\* safe deletion: SafeDeleteManager on an installation
Spec == Init /\ [][Next]_vars

NextLayers ==
  \/ \E n \in { X, Y } : ResolveTemplateCall(n)
  \/ ListResourcesCall
  \/ \E a \in { AgentA, X }, c \in { << >>, OtherCore } : ResolveAgentCall(a, c)
  \/ ListAgentsCall
  \/ Return

\* layer resolution: the queries of LayerManager on an installation
SpecLayers == InitLayers /\ [][NextLayers]_vars

\* createLayeredStructure()
CreateLayeredStructureCall ==
  /\ last = Idle
  /\ fs' = CreateLayeredStructure(fs)
  /\ last' = [op |-> "createLayeredStructure", res |-> Ok("created")]
  /\ UNCHANGED << activeCore, resourceMeta, now, manager >>

\* listResources(resourceType)
ListResourcesOfCall(resourceType) ==
  /\ last = Idle
  /\ last' = [op |-> "listResources", name |-> resourceType,
              res |-> Ok(ListResources(fs, activeCore, resourceType))]
  /\ UNCHANGED << fs, activeCore, resourceMeta, now, manager >>

\* a project directory that is empty, or holds an installation with template x
\* in any of the layers
InitScaffold ==
  /\ activeCore \in { NoCore, Core }
  /\ \E empty \in BOOLEAN, coreNames \in SUBSET { X }, orgNames \in SUBSET { X },
        customNames \in SUBSET { X } :
       fs = IF empty THEN EnsureDir(<< >>, Cwd)
            ELSE InitialTree(coreNames, orgNames, customNames, Null, Null)
  /\ resourceMeta = [n \in { X, Y } |-> MetaOf({})]
  /\ now = 1
  /\ manager = "pending"
  /\ last = Idle

NextScaffold ==
  \/ CreateLayeredStructureCall
  \/ \E i \in DOMAIN ResourceTypes : ListResourcesOfCall(ResourceTypes[i])
  \/ Return

\* scaffolding: createLayeredStructure and listResources on a project directory
SpecScaffold == InitScaffold /\ [][NextScaffold]_vars

\* migrateFromFlatStructure(coreSystemName)
MigrateCall(coreSystemName) ==
  /\ last = Idle
  /\ fs' = MigrateFromFlatStructure(fs, coreSystemName)
  /\ last' = [op |-> "migrateFromFlatStructure", name |-> coreSystemName,
              res |-> Ok("migrated")]
  /\ UNCHANGED << activeCore, resourceMeta, now, manager >>

NextMigrate ==
  \/ \E c \in { Core, OtherCore } : MigrateCall(c)
  \/ Return

\* migration: migrateFromFlatStructure on a flat installation
SpecMigrate == InitMigrate /\ [][NextMigrate]_vars

\* node uninstall.js [--force]: main of the standalone uninstaller
StandaloneCall(forceFlag, shell) ==
  /\ last = Idle
  /\ fs' = IF ~PathExists(fs, LcagentsDir) THEN fs
            ELSE IF ~forceFlag THEN fs
            ELSE RemoveShellAlias(RemoveGithubFiles(Remove(fs, LcagentsDir)), shell, TRUE)
  /\ last' = [op |-> "uninstall.js", force |-> forceFlag, answer |-> FALSE,
              shell |-> shell, res |-> Ok("done")]
  /\ UNCHANGED << activeCore, resourceMeta, now, manager >>

\* the earlier standalone uninstaller [--force]: its main, which leaves the
\* aliases
EarlierCall(forceFlag) ==
  /\ last = Idle
  /\ fs' = IF ~PathExists(fs, LcagentsDir) THEN fs
            ELSE IF ~forceFlag THEN fs
            ELSE RemoveGithubFiles(Remove(fs, LcagentsDir))
  /\ last' = [op |-> "earlier uninstall.js", force |-> forceFlag, answer |-> FALSE,
              shell |-> << >>, res |-> Ok("done")]
  /\ UNCHANGED << activeCore, resourceMeta, now, manager >>

\* lcagents uninstall [--force] [--keep-config], with the answer to the prompt
UninstallCommandCall(force, answer, keepConfig, shell) ==
  /\ last = Idle
  /\ fs' = IF ~PathExists(fs, LcagentsDir) THEN fs
            ELSE IF ~Confirmed(force, answer) THEN fs
            ELSE RemoveShellAlias(
                   RemoveCopilotInstructions(
                     RemoveGithubFiles(
                       IF keepConfig THEN RemoveItems(fs, Readdir(fs, LcagentsDir), 1)
                                     ELSE Remove(fs, LcagentsDir))),
                   shell, FALSE)
  /\ last' = [op |-> "uninstallCommand", force |-> force, answer |-> answer,
              shell |-> shell, res |-> Ok("done")]
  /\ UNCHANGED << activeCore, resourceMeta, now, manager >>

NextUninstall ==
  \/ \E force \in BOOLEAN, shell \in Shells : StandaloneCall(force, shell)
  \/ \E force \in BOOLEAN : EarlierCall(force)
  \/ \E force \in BOOLEAN, answer \in BOOLEAN, keepConfig \in BOOLEAN, shell \in Shells :
       UninstallCommandCall(force, answer, keepConfig, shell)
  \/ Return

\* removal of an installation: the uninstallers on a project directory
SpecUninstall == InitUninstall /\ [][NextUninstall]_vars

NextCheck ==
  \/ Initialize
  \/ \E n \in { X, Y, UpToCustomX } : CheckDependenciesCall(n)
  \/ Return

\* the dependency check: checkDependencies on an installation
SpecCheck == InitCheck /\ [][NextCheck]_vars

NextRestore ==
  \/ \E b \in BackupCandidates, c \in BOOLEAN : RestoreBackupCall(b, c)
  \/ Return

\* restoration: restoreBackup on an installation with an earlier backup
SpecRestore == InitRestore /\ [][NextRestore]_vars

\* ---------------------------------------------------------- properties
\* the tree at key k and below it, by the keys relative to k
SubtreeAt(f, k) ==
  [r \in { SubSeq(q, Len(k) + 1, Len(q)) : q \in { u \in DOMAIN f : IsAtOrUnder(u, k) } } |->
     f[k \o r]]

\* the key of the core layer, and of the templates directory of each layer
CoreRoot == << << "proj" >>, << ".lcagents" >>, << "core" >> >>

LayerKey(layer) ==
  IF layer = "core"
    THEN CoreRoot \o << << ".", "bmad" >>, << "templates" >> >>
    ELSE << << "proj" >>, << ".lcagents" >>, << layer >>, << "templates" >> >>

\* the layer's templates directory holds an entry of that name
Holds(layer, n) == LayerKey(layer) \o << n >> \in DOMAIN fs

\* the names of the entries of the layer's templates directory
LayerNames(layer) ==
  { q[Len(q)] : q \in { u \in DOMAIN fs : /\ Len(u) = Len(LayerKey(layer)) + 1
                                            /\ IsAtOrUnder(u, LayerKey(layer)) } }

AgentAKey == CoreRoot \o << << ".", "bmad" >>, << "agents" >>, << "a", ".md" >> >>

\* in tree f the definition of agent a declares the name in a dependency array
AgentDeclaresIn(f, name) ==
  /\ AgentAKey \in DOMAIN f
  /\ \E i \in DOMAIN f[AgentAKey].content.declares.templates :
       f[AgentAKey].content.declares.templates[i] = name

\* a step in which safeDelete runs and its check resolves the resource
SafeDeleteStep ==
  /\ last = Idle
  /\ last'.op = "safeDelete"
  /\ last'.check # Null

\* where a backup directory keeps the copy of the resource, and its metadata
BackupCopyKey(backupPath, originalPath) ==
  Key(backupPath) \o << Key(originalPath)[Len(Key(originalPath))] >>

MetadataKey(backupPath) == Key(backupPath) \o << << "metadata.json" >> >>

\* C1: whenever the path safeDelete resolves lies under the core layer, the
\* call fails with CoreResourceProtected whatever the options and whether or
\* not the resource has dependents; the tree is unchanged and no backup exists
C1_CoreImmutable ==
  [][ (SafeDeleteStep /\ IsAtOrUnder(Key(last'.check.resourcePath), CoreRoot))
      => /\ last'.res = Err("CoreResourceProtected")
         /\ last'.backupPath = Null
         /\ fs' = fs ]_vars

\* a forced delete of a core resource that has a dependent was refused
C1_Witness ==
  /\ last.op = "safeDelete"
  /\ last.check # Null
  /\ last.res = Err("CoreResourceProtected")
  /\ last.check.hasActive
  /\ last.options.force
  /\ last.options.skipBackup

\* C2: a resource x that exists in the custom layer and not in the core
\* layer, and that agent a declares, is deleted by safeDelete(x, type,
\* {force: true}): the call returns without error and x is gone from its path
C2_ForcedDeleteSucceeds ==
  [][ ( /\ last = Idle
        /\ manager = "ready"
        /\ last'.op = "safeDelete"
        /\ last'.name = X
        /\ last'.options.force
        /\ last'.faults = NoFaults
        /\ Holds("custom", X)
        /\ ~Holds("core", X)
        /\ AgentDeclaresIn(fs, X) )
      => /\ last'.res.ok
         /\ LayerKey("custom") \o << X >> \notin DOMAIN fs' ]_vars

\* C3: when agent a of listAgents declares the name and the resource exists,
\* checkDependencies returns hasActive = true and an 'agent' entry named a
C3_AgentDependentReported ==
  ( /\ last.op = "checkDependencies"
    /\ manager = "ready"
    /\ AgentDeclaresIn(fs, last.name)
    /\ GetResourcePath(fs, activeCore, Templates, last.name) # Null )
  => /\ last.res.ok
     /\ last.res.value.hasActive
     /\ \E i \in DOMAIN last.res.value.dependencies :
          /\ last.res.value.dependencies[i].type = "agent"
          /\ last.res.value.dependencies[i].name = AgentA

\* C4: when the check reports a dependent of a non-core resource and force is
\* not set, safeDelete fails with DependenciesExist carrying the dependents,
\* whatever updateDeps and skipBackup are, and the tree is unchanged
C4_GateStops ==
  [][ ( /\ SafeDeleteStep
        /\ ~last'.check.isCore
        /\ last'.check.hasActive
        /\ ~last'.options.force )
      => /\ ~last'.res.ok
         /\ last'.res.error = "DependenciesExist"
         /\ last'.res.depList = DepList(last'.check.dependencies)
         /\ Len(last'.res.depList) > 0
         /\ last'.backupPath = Null
         /\ fs' = fs ]_vars

\* an unforced delete of a non-core resource with a dependent was refused,
\* with updateDeps set
C4_Witness ==
  /\ last.op = "safeDelete"
  /\ last.check # Null
  /\ ~last.check.isCore
  /\ ~last.res.ok
  /\ last.res.error = "DependenciesExist"
  /\ last.options.updateDeps

\* nothing declares the name: neither agent a nor the metadata of y
NoDependents(name) ==
  /\ ~AgentDeclaresIn(fs, name)
  /\ \/ GetResourceMetadata(resourceMeta, Templates, Y) = Null
     \/ name \notin GetResourceMetadata(resourceMeta, Templates, Y).dependencies

\* C5: a delete of a non-core resource without dependents, with a backup and
\* without I/O errors, succeeds and leaves a backup directory with a copy
\* identical to the resource as it was and a metadata.json naming its path,
\* be the resource named by its name in the custom layer or by a name the
\* check resolves outside the core layer; a restoreBackup on a backup whose
\* resource is gone recreates the resource from that copy
C5_BackupRestoreRoundTrip ==
  [][ /\ ( /\ last = Idle
           /\ manager = "ready"
           /\ last'.op = "safeDelete"
           /\ last'.name = X
           /\ Holds("custom", X)
           /\ ~Holds("core", X)
           /\ NoDependents(X)
           /\ ~last'.options.skipBackup
           /\ last'.faults = NoFaults )
         => /\ last'.res.ok
            /\ last'.backupPath # Null
            /\ ~Holds("custom", X)'
            /\ SubtreeAt(fs', BackupCopyKey(last'.backupPath, PathOf(LayerKey("custom") \o << X >>)))
                 = SubtreeAt(fs, LayerKey("custom") \o << X >>)
            /\ MetadataKey(last'.backupPath) \in DOMAIN fs'
      /\ ( /\ SafeDeleteStep
           /\ ~last'.check.isCore
           /\ ~last'.check.hasActive
           /\ ~last'.options.skipBackup
           /\ last'.faults = NoFaults )
         => /\ last'.res.ok
            /\ last'.backupPath # Null
            /\ Key(last'.check.resourcePath) \in DOMAIN fs
            /\ Key(last'.check.resourcePath) \notin DOMAIN fs'
            /\ SubtreeAt(fs', BackupCopyKey(last'.backupPath, last'.check.resourcePath))
                 = SubtreeAt(fs, Key(last'.check.resourcePath))
            /\ MetadataKey(last'.backupPath) \in DOMAIN fs'
            /\ fs'[MetadataKey(last'.backupPath)].content.originalPath
                 = last'.check.resourcePath
      /\ ( /\ last = Idle
           /\ last'.op = "restoreBackup"
           /\ ~last'.copyFails
           /\ MetadataKey(last'.backupPath) \in DOMAIN fs
           /\ Key(fs[MetadataKey(last'.backupPath)].content.originalPath) \notin DOMAIN fs )
         => /\ last'.res.ok
            /\ Key(fs[MetadataKey(last'.backupPath)].content.originalPath) \in DOMAIN fs'
            /\ SubtreeAt(fs', Key(fs[MetadataKey(last'.backupPath)].content.originalPath))
                 = SubtreeAt(fs, BackupCopyKey(last'.backupPath,
                                 fs[MetadataKey(last'.backupPath)].content.originalPath)) ]_vars

C7_OriginalErrorRaised ==
  ( /\ last.op = "safeDelete"
    /\ last.backupPath # Null
    /\ last.original # "none" )
  => /\ ~last.res.ok
     /\ last.res.error = last.original

Highest(n) ==
  IF Holds("custom", n) THEN "custom" ELSE IF Holds("org", n) THEN "org" ELSE "core"

\* C9: with an active core system, resolveTemplate of a name that some layer
\* holds returns the file of the first of custom, org, core that holds it,
\* with that layer as source
C9_Precedence ==
  ( /\ last.op = "resolveTemplate"
    /\ activeCore # NoCore
    /\ \E layer \in { "custom", "org", "core" } : Holds(layer, last.name) )
  => /\ last.res.ok
     /\ last.res.value.name = last.name
     /\ last.res.value.source = Highest(last.name)
     /\ last.res.value.path = PathOf(LayerKey(Highest(last.name)) \o << last.name >>)

\* a template held by the org and core layers and not by the custom layer
\* was resolved to the org layer
C9_Witness ==
  /\ last.op = "resolveTemplate"
  /\ activeCore # NoCore
  /\ ~Holds("custom", last.name)
  /\ Holds("org", last.name)
  /\ Holds("core", last.name)
  /\ last.res.ok
  /\ last.res.value.source = "org"

LayerRank(layer) == IF layer = "core" THEN 1 ELSE IF layer = "org" THEN 2 ELSE 3

\* the entries of a layer: the core layer is that of the active core system
ExpectedNames(layer) ==
  IF layer = "core" /\ activeCore = NoCore THEN {} ELSE LayerNames(layer)

\* the sequence r has exactly one entry, tagged with the layer and with the
\* entry's path, for each entry of each layer's directory, core entries
\* before org entries before custom entries
ListsEveryEntry(r) ==
  /\ \A layer \in { "core", "org", "custom" } :
       /\ { r[i].name : i \in { j \in DOMAIN r : r[j].source = layer } } = ExpectedNames(layer)
       /\ Cardinality({ j \in DOMAIN r : r[j].source = layer })
            = Cardinality(ExpectedNames(layer))
  /\ \A i \in DOMAIN r :
       /\ r[i].source \in { "core", "org", "custom" }
       /\ r[i].path = PathOf(LayerKey(r[i].source) \o << r[i].name >>)
  /\ \A i \in DOMAIN r : \A j \in DOMAIN r :
       i < j => LayerRank(r[i].source) <= LayerRank(r[j].source)

\* C10 as stated: listResources returns one entry per directory entry of each
\* of the three layers, tagged, core then org then custom, never merged
C10_ListsEveryEntry ==
  last.op = "listResources" => ListsEveryEntry(last.res.value)

\* C10: with an active core system, listResources returns one entry per
\* directory entry of each of the three layers, tagged with its layer, core
\* then org then custom, a name held by several layers once per layer
C10_ListsEveryEntryOfActiveCore ==
  (last.op = "listResources" /\ activeCore # NoCore) => ListsEveryEntry(last.res.value)

\* a name held by all three layers was listed three times
C10_Witness ==
  /\ last.op = "listResources"
  /\ activeCore # NoCore
  /\ Holds("core", X) /\ Holds("org", X) /\ Holds("custom", X)
  /\ Cardinality({ i \in DOMAIN last.res.value : last.res.value[i].name = X }) = 3

\* the key of the agents directory of the core layer, and of a layer's
\* override file of an agent
AgentsKey == CoreRoot \o << << ".", "bmad" >>, << "agents" >> >>

OverrideKey(layer, agentId) ==
  << << "proj" >>, << ".lcagents" >>, << layer >>, << "agents" >>, << "overrides" >>,
     agentId \o << ".yaml" >> >>

\* the unresolved sentinel of resolveAgent
Unresolved(agentId) ==
  [agentId |-> agentId, coreSystem |-> << >>, corePath |-> << >>, finalPath |-> << >>,
   layerSources |-> << >>]

\* C11: without an active core system listAgents returns the empty sequence
\* and resolveAgent returns the unresolved sentinel for every agent id, not an
\* error; listAgents is also empty when the core agents directory is absent
C11_NoCoreSentinel ==
  /\ (last.op = "listAgents" /\ (activeCore = NoCore \/ AgentsKey \notin DOMAIN fs))
       => last.res = Ok(<< >>)
  /\ (last.op = "resolveAgent" /\ activeCore = NoCore)
       => last.res = Ok(Unresolved(last.agentId))

\* without an active core system the agents directory holds a.md and
\* listAgents has returned the empty sequence
C11_Witness ==
  /\ last.op = "listAgents"
  /\ activeCore = NoCore
  /\ AgentAKey \in DOMAIN fs
  /\ last.res = Ok(<< >>)

\* C12: resolveAgent with a core system override returns the override as
\* coreSystem and a corePath in the core-layer directory of the override;
\* without an override, those of the active core system
C12_OverrideResolves ==
  (last.op = "resolveAgent" /\ activeCore # NoCore)
  => /\ last.res.ok
     /\ last.res.value.coreSystem
          = (IF last.coreSystem # << >> THEN last.coreSystem ELSE activeCore)
     /\ last.res.value.corePath
          = PathOf(<< << "proj" >>, << ".lcagents" >>, << "core" >>,
                      << "." >> \o last.res.value.coreSystem, << "agents" >>,
                      last.agentId \o << ".md" >> >>)

\* C18: while a core system is active, layerSources of resolveAgent is core,
\* then org exactly when the org override file of the agent exists, then
\* custom exactly when the custom override file exists
C18_LayerSources ==
  (last.op = "resolveAgent" /\ activeCore # NoCore)
  => /\ last.res.ok
     /\ last.res.value.layerSources
          = << "core" >>
            \o (IF OverrideKey("org", last.agentId) \in DOMAIN fs THEN << "org" >> ELSE << >>)
            \o (IF OverrideKey("custom", last.agentId) \in DOMAIN fs
                  THEN << "custom" >> ELSE << >>)

\* an agent with both override files was resolved to core, org, custom
C18_Witness ==
  /\ last.op = "resolveAgent"
  /\ activeCore # NoCore
  /\ OverrideKey("org", last.agentId) \in DOMAIN fs
  /\ OverrideKey("custom", last.agentId) \in DOMAIN fs
  /\ last.res.value.layerSources = << "core", "org", "custom" >>

\* the place of a step in the order of safeDelete
StepRank(step) ==
  CASE step = "check" -> 1 [] step = "gate" -> 2 [] step = "backup" -> 3
    [] step = "remove" -> 4 [] step = "update" -> 5 [] step = "restore" -> 6

Took(steps, step) == \E i \in DOMAIN steps : steps[i] = step

\* the keys of the metadata documents of the backups
MetadataKeys(f) == { q \in DOMAIN f : Len(q) > 0 /\ q[Len(q)] = << "metadata.json" >> }

\* C13: the steps of one safeDelete call are taken in the order check, gate,
\* backup, removal, update of dependents: a backup only after the gate, a
\* removal only after the backup or with skipBackup, an update only after the
\* removal, a restore only after the removal or the update failed; and a
\* call that did not reach a step shows none of its effects
C13_StepOrder ==
  [][ (last = Idle /\ last'.op = "safeDelete")
      => /\ \A i \in DOMAIN last'.steps : \A j \in DOMAIN last'.steps :
              i < j => StepRank(last'.steps[i]) < StepRank(last'.steps[j])
         /\ Took(last'.steps, "gate") => Took(last'.steps, "check")
         /\ Took(last'.steps, "backup")
              => (Took(last'.steps, "gate") /\ ~last'.options.skipBackup)
         /\ Took(last'.steps, "remove")
              => /\ Took(last'.steps, "gate")
                 /\ Took(last'.steps, "backup") \/ last'.options.skipBackup
                 /\ Took(last'.steps, "backup") => last'.backupPath # Null
         /\ Took(last'.steps, "update") => Took(last'.steps, "remove")
         /\ Took(last'.steps, "restore")
              => (last'.original # "none" /\ last'.backupPath # Null)
         /\ ~Took(last'.steps, "backup") => MetadataKeys(fs') \subseteq MetadataKeys(fs)
         /\ ~Took(last'.steps, "remove")
              => \A q \in DOMAIN fs : q \in DOMAIN fs' /\ fs'[q] = fs[q]
         /\ ~Took(last'.steps, "update")
              => SubtreeAt(fs', AgentsKey) = SubtreeAt(fs, AgentsKey) ]_vars

\* a call with a backup and an update of dependents took all five steps
C13_Witness ==
  /\ last.op = "safeDelete"
  /\ last.steps = << "check", "gate", "backup", "remove", "update" >>
  /\ last.res.ok

\* a step in which restoreBackup runs
RestoreStep == last = Idle /\ last'.op = "restoreBackup"

\* the key of the directory the metadata of a backup names as the parent of
\* the resource
RecordedParentKey(backupPath) ==
  SubSeq(Key(fs[MetadataKey(backupPath)].content.originalPath), 1,
         Len(Key(fs[MetadataKey(backupPath)].content.originalPath)) - 1)

\* C14: restoreBackup fails with InvalidBackup when metadata.json is absent
\* from the backup directory or is not JSON, and with StaleLocation when the
\* parent directory of the recorded original path is gone; either way the
\* tree is unchanged
C14_RestoreRefusals ==
  [][ /\ ( /\ RestoreStep
           /\ MetadataKey(last'.backupPath) \notin DOMAIN fs )
         => (last'.res = Err("InvalidBackup") /\ fs' = fs)
      /\ ( /\ RestoreStep
           /\ MetadataKey(last'.backupPath) \in DOMAIN fs
           /\ fs[MetadataKey(last'.backupPath)].content = Garbled )
         => (last'.res = Err("InvalidBackup") /\ fs' = fs)
      /\ ( /\ RestoreStep
           /\ MetadataKey(last'.backupPath) \in DOMAIN fs
           /\ fs[MetadataKey(last'.backupPath)].content # Garbled
           /\ RecordedParentKey(last'.backupPath) \notin DOMAIN fs )
         => (last'.res = Err("StaleLocation") /\ fs' = fs) ]_vars

\* a step in which one of the three look-ups of a resource runs
LookupStep ==
  /\ last = Idle
  /\ \/ last'.op \in { "getResourcePath", "readResource" }
     \/ last'.op = "checkDependencies" /\ manager = "ready"

\* the look-up whose result is l reported the resource present
ReportedPresent(l) ==
  IF l.op = "getResourcePath" THEN l.res.value # Null
  ELSE l.res # Err("ResourceNotFound")

\* the place a resource name denotes, counted from the templates directory of
\* the core layer
NamedKey(name) == Key(PathJoin(<< PathOf(LayerKey("core")), name >>))

\* the core layer of the active core system holds the resource of that name
InCoreLayer(name) ==
  /\ activeCore # NoCore
  /\ NamedKey(name) \in DOMAIN fs
  /\ IsAtOrUnder(NamedKey(name), LayerKey("core"))

\* C15: getResourcePath, readResource and checkDependencies report a
\* resource present exactly when the core layer of the active core system
\* holds it; what the org and custom layers hold is never reported
C15_CoreLayerOnly ==
  [][ LookupStep => (ReportedPresent(last') <=> InCoreLayer(last'.name)) ]_vars

\* the call raised the error of the gate
RaisedDependenciesExist(res) == ~res.ok /\ res.error = "DependenciesExist"

\* on the present state a safeDelete of the name without force and without
\* updateDeps is stopped by the gate
StoppedWithoutUpdate(name, skipBackup) ==
  RaisedDependenciesExist(
    SafeDelete(fs, activeCore, resourceMeta, now, name, Templates,
               [force |-> FALSE, updateDeps |-> FALSE, skipBackup |-> skipBackup],
               NoFaults).res)

\* C16: on a state where a safeDelete with force and updateDeps both unset
\* fails with DependenciesExist, the same safeDelete with updateDeps set and
\* force unset does not fail with DependenciesExist
C16_UpdateDepsRecovers ==
  [][ ( /\ SafeDeleteStep
        /\ ~last'.options.force
        /\ last'.options.updateDeps
        /\ StoppedWithoutUpdate(last'.name, last'.options.skipBackup) )
      => ~RaisedDependenciesExist(last'.res) ]_vars

\* C17: a safeDelete with skipBackup set creates no backup directory, nor any
\* other file or directory, and attempts no restore; when its removal or its
\* update of the dependents fails, the error raised is that failure and the
\* tree is left as the failed step left it: a resource that was removed is
\* not there
C17_NoBackupNoRecovery ==
  [][ (SafeDeleteStep /\ last'.options.skipBackup)
      => /\ last'.backupPath = Null
         /\ DOMAIN fs' \subseteq DOMAIN fs
         /\ ~Took(last'.steps, "backup")
         /\ ~Took(last'.steps, "restore")
         /\ last'.restore = "none"
         /\ (Took(last'.steps, "remove") /\ ~last'.res.ok)
              => /\ last'.res.error = last'.original
                 /\ Took(last'.steps, "update")
                      => Key(last'.check.resourcePath) \notin DOMAIN fs'
                 /\ ~Took(last'.steps, "update")
                      => fs' = RemoveInterrupted(fs, last'.check.resourcePath) ]_vars

\* a call with skipBackup failed in the removal of a directory, which it left
\* without its entries, and nothing was restored
C17_Witness ==
  /\ last.op = "safeDelete"
  /\ last.check # Null
  /\ last.options.skipBackup
  /\ Took(last.steps, "remove")
  /\ ~last.res.ok
  /\ last.res.error = "RemoveFailed"
  /\ last.restore = "none"
  /\ Key(CustomXPath) \in DOMAIN fs
  /\ Key(CustomXPath) \o << << "part" >> >> \notin DOMAIN fs
  /\ fs[Key(CustomXPath)] = DirNode

\* C19: when the copy of createBackup fails in a safeDelete that passed the
\* check and the gate, the call raises that error and goes no further: every
\* file and directory is still there unchanged, the resource and the agent
\* definitions among them, and no restore is attempted
C19_BackupFailureAborts ==
  [][ ( /\ SafeDeleteStep
        /\ ~last'.check.isCore
        /\ ~Gate(last'.check, last'.options)
        /\ ~last'.options.skipBackup
        /\ last'.faults.backupCopy )
      => /\ last'.res = Err("CopyFailed")
         /\ last'.steps = << "check", "gate", "backup" >>
         /\ last'.restore = "none"
         /\ \A q \in DOMAIN fs : q \in DOMAIN fs' /\ fs'[q] = fs[q]
         /\ SubtreeAt(fs', Key(last'.check.resourcePath))
              = SubtreeAt(fs, Key(last'.check.resourcePath))
         /\ SubtreeAt(fs', AgentsKey) = SubtreeAt(fs, AgentsKey) ]_vars

\* a call failed in the copy of its backup and the resource is there
C19_Witness ==
  /\ last.op = "safeDelete"
  /\ last.check # Null
  /\ last.faults.backupCopy
  /\ last.steps = << "check", "gate", "backup" >>
  /\ last.res = Err("CopyFailed")
  /\ Key(last.check.resourcePath) \in DOMAIN fs

\* the call whose record is l passed the check and the gate
PassedGate(l) == l.check # Null /\ ~l.check.isCore /\ ~Gate(l.check, l.options)

\* the keys of the backup directories: those that hold a metadata.json
BackupKeys(f) == { SubSeq(q, 1, Len(q) - 1) : q \in MetadataKeys(f) }

\* C20: a safeDelete that passes the check and the gate with skipBackup unset,
\* and whose backup copy meets no I/O error, leaves exactly one backup
\* directory that was not there before, holding the copy of the resource and
\* a metadata.json; any other safeDelete leaves no new file or directory
C20_OneNewBackup ==
  [][ (last = Idle /\ last'.op = "safeDelete")
      => IF PassedGate(last') /\ ~last'.options.skipBackup
           THEN ~last'.faults.backupCopy
                => /\ Cardinality(BackupKeys(fs') \ BackupKeys(fs)) = 1
                   /\ \A b \in BackupKeys(fs') \ BackupKeys(fs) :
                        /\ b \notin DOMAIN fs
                        /\ b = Key(last'.backupPath)
                        /\ BackupCopyKey(last'.backupPath, last'.check.resourcePath)
                             \in DOMAIN fs'
           ELSE DOMAIN fs' \subseteq DOMAIN fs ]_vars

\* C21: no step removes a backup directory or anything in it: every file
\* and directory of a directory that holds a metadata.json is still there
\* after the step, unchanged, a restoreBackup from that directory included
C21_BackupsKept ==
  [][ \A b \in BackupKeys(fs) :
        \A q \in DOMAIN fs : IsAtOrUnder(q, b) => (q \in DOMAIN fs' /\ fs'[q] = fs[q]) ]_vars

\* a backup has been restored from and is still there with its copy
C21_Witness ==
  /\ last.op = "restoreBackup"
  /\ last.res.ok
  /\ MetadataKey(last.backupPath) \in DOMAIN fs
  /\ BackupCopyKey(last.backupPath, last.res.value) \in DOMAIN fs

\* a step in which checkDependencies runs on an initialised manager and finds
\* the resource
CheckStep ==
  /\ last = Idle
  /\ last'.op = "checkDependencies"
  /\ manager = "ready"
  /\ GetResourcePath(fs, activeCore, Templates, last'.name) # Null

\* some agent of the listing cannot be loaded
SomeAgentFails ==
  \E i \in DOMAIN ListAgents(fs, activeCore) :
    ~LoadAgent(fs, activeCore, ListAgents(fs, activeCore)[i]).ok

\* the entries of listResources that declare the name and do not bear it
Declaring(name) ==
  SelectSeq(ListResources(fs, activeCore, Templates),
            LAMBDA e : /\ e.name # name
                       /\ GetResourceMetadata(resourceMeta, Templates, e.name) # Null
                       /\ name \in GetResourceMetadata(resourceMeta, Templates, e.name).dependencies)

\* the dependencies of one kind, in the order of the result
OfKind(dependencies, kind) == SelectSeq(dependencies, LAMBDA d : d.type = kind)

\* C22: when an agent of the listing cannot be loaded, checkDependencies
\* still returns a DependencyCheckResult, and the result records every
\* sibling resource that declares the name
C22_AgentFailureSkipped ==
  [][ (CheckStep /\ SomeAgentFails)
      => /\ last'.res.ok
         /\ [i \in DOMAIN OfKind(last'.res.value.dependencies, "resource") |->
               OfKind(last'.res.value.dependencies, "resource")[i].name]
              = [i \in DOMAIN Declaring(last'.name) |-> Declaring(last'.name)[i].name] ]_vars

\* a check met an agent it could not load and recorded a sibling resource
C22_Witness ==
  /\ last.op = "checkDependencies"
  /\ last.res.ok
  /\ SomeAgentFails
  /\ Len(last.res.value.dependencies) > 0

Declares(e, name) ==
  /\ GetResourceMetadata(resourceMeta, Templates, e.name) # Null
  /\ name \in GetResourceMetadata(resourceMeta, Templates, e.name).dependencies

\* the result records the entry as a dependent of kind resource
Recorded(dependencies, e) ==
  \E i \in DOMAIN dependencies :
    /\ dependencies[i].type = "resource"
    /\ dependencies[i].name = e.name
    /\ dependencies[i].path = e.path

\* C24: checkDependencies(R, type) records as resource dependents the entries
\* of listResources(type) whose name is not R and whose metadata declares R,
\* and no others; no recorded dependent bears the name R
C24_ResourceDependents ==
  [][ CheckStep
      => /\ last'.res.ok
         /\ \A i \in DOMAIN ListResources(fs, activeCore, Templates) :
              Recorded(last'.res.value.dependencies, ListResources(fs, activeCore, Templates)[i])
              <=> /\ ListResources(fs, activeCore, Templates)[i].name # last'.name
                  /\ Declares(ListResources(fs, activeCore, Templates)[i], last'.name)
         /\ \A i \in DOMAIN last'.res.value.dependencies :
              /\ last'.res.value.dependencies[i].name # last'.name
              /\ last'.res.value.dependencies[i].type = "resource"
                   => \E j \in DOMAIN ListResources(fs, activeCore, Templates) :
                        /\ ListResources(fs, activeCore, Templates)[j].name
                             = last'.res.value.dependencies[i].name
                        /\ ListResources(fs, activeCore, Templates)[j].path
                             = last'.res.value.dependencies[i].path ]_vars

\* a check of x, whose own metadata declares x, recorded another resource
C24_Witness ==
  /\ last.op = "checkDependencies"
  /\ last.name = X
  /\ last.res.ok
  /\ X \in resourceMeta[X].dependencies
  /\ Len(last.res.value.dependencies) > 0

\* the keys of the flat directory of a resource type and of its directory in
\* the core layer of a core system
FlatKey(type) == << << "proj" >>, << ".lcagents" >>, type >>

CoreTypeKey(coreSystemName, type) == CoreRoot \o << DotCore(coreSystemName), type >>

\* C25: after migrateFromFlatStructure(name), for each of the six resource
\* types the flat directory is gone and the directory of the type in the core
\* layer of name exists; it holds what the flat directory held when there was
\* one, and what it held before otherwise; a second migration would change
\* nothing
C25_Migration ==
  [][ (last = Idle /\ last'.op = "migrateFromFlatStructure")
      => /\ \A i \in DOMAIN ResourceTypes :
              /\ FlatKey(ResourceTypes[i]) \notin DOMAIN fs'
              /\ IsDirKey(fs', CoreTypeKey(last'.name, ResourceTypes[i]))
              /\ FlatKey(ResourceTypes[i]) \in DOMAIN fs
                   => SubtreeAt(fs', CoreTypeKey(last'.name, ResourceTypes[i]))
                        = SubtreeAt(fs, FlatKey(ResourceTypes[i]))
              /\ ( /\ FlatKey(ResourceTypes[i]) \notin DOMAIN fs
                   /\ CoreTypeKey(last'.name, ResourceTypes[i]) \in DOMAIN fs )
                   => SubtreeAt(fs', CoreTypeKey(last'.name, ResourceTypes[i]))
                        = SubtreeAt(fs, CoreTypeKey(last'.name, ResourceTypes[i]))
         /\ MigrateFromFlatStructure(fs', last'.name) = fs' ]_vars

\* a migration moved the flat templates directory with its file over a
\* directory of the core layer that held another file
C25_Witness ==
  /\ last.op = "migrateFromFlatStructure"
  /\ last.name = Core
  /\ CoreTypeKey(Core, Templates) \o << << "f" >> >> \in DOMAIN fs
  /\ fs[CoreTypeKey(Core, Templates) \o << << "f" >> >>].content = 1
  /\ CoreTypeKey(Core, Templates) \o << << "g" >> >> \notin DOMAIN fs
  /\ CoreTypeKey(Core, << "agents" >>) \o << << "g" >> >> \in DOMAIN fs

\* a step of one of the uninstallers that was neither forced nor confirmed
UnconfirmedStep ==
  /\ last = Idle
  /\ last'.op \in { "uninstall.js", "earlier uninstall.js", "uninstallCommand" }
  /\ ~last'.force
  /\ ~last'.answer

\* C26: an uninstaller run without the force flag, and for the command also
\* without a yes to its prompt, leaves every file and directory as it was:
\* .lcagents, the files under .github and the shell configuration
C26_NothingRemovedUnconfirmed ==
  [][ UnconfirmedStep => fs' = fs ]_vars

\* the command was neither forced nor confirmed on an installation with the
\* workflow file and the aliases, and they are all there
C26_Witness ==
  /\ last.op = "uninstallCommand"
  /\ ~last.force
  /\ ~last.answer
  /\ PathExists(fs, LcagentsDir)
  /\ PathExists(fs, PathJoin(<< GithubWorkflowsDir, LcagentsWorkflows[1] >>))
  /\ PathExists(fs, PathJoin(<< Home, << ".zshrc" >> >>))
  /\ HasAlias(fs[Key(PathJoin(<< Home, << ".zshrc" >> >>))].content)
  /\ Includes(last.shell, << "zsh" >>)

\* C27: when checkDependencies or safeDelete is called, initialize has run to
\* its end: the call does not meet an unassigned layerManager, and when
\* initialize found no active core configuration the call raises that error
C27_InitialisedBeforeUse ==
  [][ (last = Idle /\ last'.op \in { "checkDependencies", "safeDelete" })
      => /\ manager # "pending"
         /\ last'.res # Err("TypeError")
         /\ manager = "failed" => last'.res = Err("NoActiveCoreConfiguration") ]_vars

\* C28: every DependencyCheckResult of checkDependencies has isCore true, and
\* no safeDelete takes the backup, the removal or the update of dependents
C28_AlwaysCore ==
  [][ /\ (last = Idle /\ last'.op = "checkDependencies" /\ last'.res.ok)
           => last'.res.value.isCore
      /\ (last = Idle /\ last'.op = "safeDelete")
           => /\ last'.check # Null => last'.check.isCore
              /\ ~Took(last'.steps, "backup")
              /\ ~Took(last'.steps, "remove")
              /\ ~Took(last'.steps, "update") ]_vars

C31_ResolvesWithoutCore ==
  ( /\ last.op = "resolveTemplate"
    /\ Holds("custom", last.name) \/ Holds("org", last.name) )
  => /\ last.res.ok
     /\ last.res.value.source = (IF Holds("custom", last.name) THEN "custom" ELSE "org")
     /\ last.res.value.path
          = PathOf(LayerKey(IF Holds("custom", last.name) THEN "custom" ELSE "org")
                   \o << last.name >>)

\* C32: on the tree createLayeredStructure scaffolds in an empty project
\* directory, which holds no resource file, listResources of any resource
\* type returns no entry
C32_ScaffoldListsNothing ==
  ( /\ last.op = "listResources"
    /\ fs = CreateLayeredStructure(EnsureDir(<< >>, Cwd)) )
  => /\ last.res.ok
     /\ last.res.value = << >>

\* the key of the original path that the metadata of a backup records, and
\* the key of the copy of the resource that the backup holds
RecordedKey(backupPath) == Key(fs[MetadataKey(backupPath)].content.originalPath)

BackedUpKey(backupPath) ==
  Key(backupPath) \o << RecordedKey(backupPath)[Len(RecordedKey(backupPath))] >>

\* a step in which restoreBackup runs, without an I/O error, on a backup that
\* holds its metadata and its copy and whose recorded parent directory exists
ValidRestoreStep ==
  /\ RestoreStep
  /\ ~last'.copyFails
  /\ MetadataKey(last'.backupPath) \in DOMAIN fs
  /\ fs[MetadataKey(last'.backupPath)].content # Garbled
  /\ RecordedParentKey(last'.backupPath) \in DOMAIN fs
  /\ BackedUpKey(last'.backupPath) \in DOMAIN fs

\* C33: restoreBackup on a valid backup whose original parent directory
\* exists succeeds whatever is at the recorded original path; afterwards the
\* tree at that path equals the copy the backup holds, and a second
\* restoreBackup of the same backup leaves the tree as the first left it
C33_RestoreOverwrites ==
  [][ ValidRestoreStep
      => /\ last'.res.ok
         /\ SubtreeAt(fs', RecordedKey(last'.backupPath))
              = SubtreeAt(fs, BackedUpKey(last'.backupPath))
         /\ RestoreBackup(fs', last'.backupPath, FALSE) = Wrote(fs', last'.res) ]_vars
====
